---- MODULE Spec2Model ----
(***************************************************************************)
(* Reel acquisition-and-sync pipeline: the scheduler of main(), the        *)
(* harvesting cycle (getInstagramData -> getUserData -> processLinkInTab   *)
(* -> convertMP4toMP3 -> sync) and the ledger file Allreel.json.           *)
(*                                                                         *)
(* The program is single-threaded JavaScript: every action below is the    *)
(* code that runs between two awaits of one async call chain, so actions   *)
(* of different chains interleave exactly where the code awaits.           *)
(***************************************************************************)
EXTENDS Integers, Sequences, FiniteSets

\* ---------------------------------------------------------------- bounds
\* number of harvesting cycles the timer may start in one run of the process
MaxStarts == 1
\* number of distinct reel links the profile page can show
NumLinks == 1
\* largest seed of the harvesting counter that Init draws (minute of hour)
MaxSeed == 2
\* number of keep-alive call chains that may be in flight at once
MaxKeepAlive == 1
\* number of distinct reel links in the runs with overlapping ledger writers
WideLinks == 2

\* number of direct calls of upsertReelEntry in the runs of the store alone
MaxClock == 3

\* ledger records and profile records on file when the two sync calls run
MaxSyncReels == 2
MaxSyncProfiles == 2

\* longest number part of the count tokens that are generated
MaxNumLen == 3

\* largest number of distinct reel anchors on the page whose links are capped
MaxAnchors == 125

\* ledger records and profile records that the back-fill alone is run on
MaxBackfillReels == 1
MaxBackfillProfiles == 2

\* ------------------------------------------------------ program constants
targetUserDataCount == 3
targetGoogleKeepAliveCount == 15
initialGoogleKeepAliveCount == 16
maxLinksPerUser == 120
\* "retries: 3" in the call of launchBrowser by main()
retries == 3
\* maxLinksPerUser of src/index.js
indexMaxLinksPerUser == 10
\* the default of the parameter limit of extractUserHrefPaths
extractLimit == 200

Null == 0
Url == 1
\* one slot for the startup call of main() and one per start by the timer
Cycles == 1..(MaxStarts + 1)
usernameArray == <<"orellryan">>

VARIABLES
  mainPc,                \* position of main(): "launch*", "loop", "exit_*"
  userDataCount,         \* harvesting counter
  googleKeepAliveCount,  \* camouflage counter
  userDataRetrival,      \* busy flag
  keepAlive,             \* googleKeepAlive() calls in flight
  harvestStarts,         \* harvesting cycles started by the timer so far
  cyc,                   \* the harvesting call chains, one per slot
  ledger,                \* content of output/Allreel.json
  allProfiles,           \* content of output/allProfiles.json
  latestFile,            \* most recently modified file of the Downloads dir
  pageLinks,             \* number of reel anchors the profile page shows
  reelMeta,              \* what the native pages of the reels yield when scraped
  fileKind,              \* what output/Allreel.json is: "missing", "invalid"
                         \* (not JSON), "notArray" (JSON, no array), "array"
  now,                   \* the clock new Date() reads
  lastCall,              \* the latest direct call of upsertReelEntry
  calc,                  \* the call of a function without side effects
  sync                   \* a run of updateUserProfiles + updateContentReels

vars == <<mainPc, userDataCount, googleKeepAliveCount, userDataRetrival,
          keepAlive, harvestStarts, cyc, ledger, allProfiles, latestFile,
          pageLinks, reelMeta, fileKind, now, lastCall, sync, calc>>
sched == <<userDataCount, googleKeepAliveCount, userDataRetrival, keepAlive,
           harvestStarts>>
files == <<ledger, allProfiles, latestFile, pageLinks, reelMeta, fileKind>>
\* what only the runs of single functions (store, sync) change
aux == <<now, lastCall, sync, calc>>

\* ------------------------------------------------------------ ledger store
\* mutant: whatever the file holds is returned
loadAllReelsUnchecked == ledger

\* loadAllReels(): readFile or JSON.parse threw, or the value is no array: [].
\* For a file that is no array, ledger holds the records inside its value
loadAllReels == IF fileKind = "array" THEN ledger ELSE <<>>

\* saveAllReels(entries): the file now is the JSON array of the entries
saveAllReels(entries) == ledger' = entries /\ fileKind' = "array"

\* the record upsertReelEntry creates for an unknown linkUrl; meta stands for
\* the scraped fields (caption, thumbnailUrl, likes, ...), which it lacks
NewEntry(linkUrl) ==
  [linkUrl |-> linkUrl, downloaded |-> FALSE, filePath |-> Null,
   mp3FilePath |-> Null, isConverted |-> FALSE,
   serverMP4Url |-> Null, lastUpdated |-> now, meta |-> Null]

\* list.find((e) => e.linkUrl === linkUrl): index of the first match, 0 if none
FindEntry(list, linkUrl) ==
  LET hits == {k \in 1..Len(list) : list[k].linkUrl = linkUrl}
  IN IF hits = {} THEN 0 ELSE CHOOSE k \in hits : \A m \in hits : k <= m

\* mutant: the lookup is skipped and a fresh record is always pushed
FindOrCreateAlwaysPush(list, linkUrl) == Append(list, NewEntry(linkUrl))

\* find-or-create part of upsertReelEntry
FindOrCreate(list, linkUrl) ==
  IF FindEntry(list, linkUrl) = 0 THEN Append(list, NewEntry(linkUrl)) ELSE list

\* mutant: every record of the list is stamped
StampAll(list, linkUrl) ==
  [k \in DOMAIN list |-> [list[k] EXCEPT !.lastUpdated = now]]

\* "entry.lastUpdated = new Date().toISOString()" after mutate(entry)
Stamp(list, linkUrl) ==
  [list EXCEPT ![FindEntry(list, linkUrl)].lastUpdated = now]

\* upsertReelEntry(linkUrl, () => {}): a mutation that changes nothing
upsertNoop(list, linkUrl) == Stamp(FindOrCreate(list, linkUrl), linkUrl)

\* mutant: the placeholder marks the link as downloaded
upsertPlaceholderDone(list, linkUrl) ==
  LET l2 == FindOrCreate(list, linkUrl)
  IN Stamp([l2 EXCEPT ![FindEntry(l2, linkUrl)].downloaded = TRUE], linkUrl)

\* upsertReelEntry(linkUrl, (entry) => { entry.downloaded = false; })
upsertPlaceholder(list, linkUrl) ==
  LET l2 == FindOrCreate(list, linkUrl)
  IN Stamp([l2 EXCEPT ![FindEntry(l2, linkUrl)].downloaded = FALSE], linkUrl)

\* what scrapeReelMetadataFromPage found on the reel's native page: Null when
\* a field is null, else the value scraped
Scraped == 1

\* "if (meta.caption != null) e.caption = meta.caption", and the same for the
\* other scraped fields; meta stands for all of them
MetaWritten(old, meta) == IF meta # Null THEN meta ELSE old

\* upsertReelEntry(linkUrl, ...) after the scrape of the reel's native page
upsertMeta(list, linkUrl, meta) ==
  LET l2 == FindOrCreate(list, linkUrl)
      k == FindEntry(l2, linkUrl)
  IN Stamp([l2 EXCEPT ![k].meta = MetaWritten(@, meta)], linkUrl)

\* upsertReelEntry(linkUrl, (entry) => { entry.downloaded = true;
\*   entry.filePath = latest.filePath (only when a latest file was found) })
upsertDownloaded(list, linkUrl, latest) ==
  LET l2 == FindOrCreate(list, linkUrl)
      k == FindEntry(l2, linkUrl)
  IN Stamp([l2 EXCEPT ![k].downloaded = TRUE,
                      ![k].filePath = IF latest = Null THEN @ ELSE latest],
           linkUrl)

\* existingList.some((e) => e.linkUrl === linkUrl && e.downloaded)
AlreadyProcessed(existingList, linkUrl) ==
  \E k \in 1..Len(existingList) :
    existingList[k].linkUrl = linkUrl /\ existingList[k].downloaded

\* ------------------------------------------------------- harvesting chains
IdleCycle ==
  [pc |-> "idle", origin |-> "none", u |-> 0, combined |-> <<>>,
   hrefs |-> <<>>, i |-> 0, tab |-> FALSE,
   list |-> <<>>, latest |-> Null, clicked |-> FALSE, outcome |-> "none",
   reels |-> <<>>, j |-> 0, changed |-> FALSE,
   conv |-> [idx |-> 0, hasAudio |-> FALSE, calls |-> {}, threw |-> FALSE]]

InFlight(c) == cyc[c].pc # "idle"
NumInFlight == Cardinality({c \in Cycles : InFlight(c)})
Running == mainPc = "loop"

\* main() inside launchBrowser: the position before the launch attempt with
\* loop variable attempt = 0, 1, ...
LaunchPcs == <<"launch", "launch_1", "launch_2", "launch_3", "launch_4">>
Launching == \E k \in DOMAIN LaunchPcs : LaunchPcs[k] = mainPc
\* the value of the loop variable "attempt" at a position
AttemptOf(pc) == (CHOOSE k \in DOMAIN LaunchPcs : LaunchPcs[k] = pc) - 1

\* the synchronous head of getInstagramData(): the chain now awaits fs.mkdir
StartCycle(c, origin) == [IdleCycle EXCEPT !.pc = "open", !.origin = origin]

\* no direct call of upsertReelEntry, no run of the sync, so far
NoCall == [linkUrl |-> Null, mutate |-> "none", found |-> "none", again |-> FALSE]
NoSync == [pc |-> "off", todo |-> <<>>, puts |-> <<>>]
NoCalc == [fn |-> "none", input |-> <<>>, output |-> <<>>, done |-> FALSE]

\* the state after the module's top-level code ran and main() was called. The
\* clock is not advanced in the runs of the whole program: lastUpdated takes
\* part in no test the program makes
InitProcess ==
  /\ mainPc = "launch"
  /\ googleKeepAliveCount = initialGoogleKeepAliveCount
  /\ userDataRetrival = FALSE
  /\ keepAlive = 0
  /\ harvestStarts = 0
  /\ cyc = [c \in Cycles |-> IdleCycle]
  /\ ledger = <<>>
  /\ fileKind = "missing"
  /\ allProfiles = [exists |-> FALSE, profiles |-> <<>>]
  /\ latestFile = Null
  /\ now = 0
  /\ lastCall = NoCall
  /\ sync = NoSync
  /\ calc = NoCalc

\* every seed of the harvesting counter
Init ==
  /\ InitProcess
  /\ userDataCount \in 0..MaxSeed
  /\ pageLinks \in 0..NumLinks
  /\ reelMeta = Null

\* the seed that lets the first tick start a harvesting cycle
InitHarvest ==
  /\ InitProcess
  /\ userDataCount = MaxSeed
  /\ pageLinks \in 0..NumLinks
  /\ reelMeta = Null

\* the seed of a start in minute 0: the camouflage counter is reset by the
\* first tick and the harvesting counter reaches its threshold after it
InitZero ==
  /\ InitProcess
  /\ userDataCount = 0
  /\ pageLinks \in 0..NumLinks
  /\ reelMeta = Null

\* the same, with a page that shows more links
InitWide ==
  /\ InitProcess
  /\ userDataCount = MaxSeed
  /\ pageLinks \in 0..WideLinks
  /\ reelMeta = Null

\* mutant: the loop runs while attempt <= retries
CanAttemptOneMore(attempt) == attempt <= retries

\* "attempt < retries", the test of the loop of launchBrowser
CanAttempt(attempt) == attempt < retries

\* ------------------------------------------------------------------ main()
\* main(): launchBrowser succeeded, setInterval is registered and the startup
\* getInstagramData() is called without touching userDataRetrival
MainLaunched ==
  /\ UNCHANGED aux
  /\ Launching /\ CanAttempt(AttemptOf(mainPc))
  /\ mainPc' = "loop"
  /\ cyc' = [cyc EXCEPT ![1] = StartCycle(1, "startup")]
  /\ UNCHANGED <<sched, files>>

\* process.exit(1): the timer, the call chains and the counters are gone, the
\* files stay
Exit(reason) ==
  /\ mainPc' = reason
  /\ userDataCount' = 0
  /\ googleKeepAliveCount' = 0
  /\ userDataRetrival' = FALSE
  /\ keepAlive' = 0
  /\ harvestStarts' = 0
  /\ cyc' = [c \in Cycles |-> IdleCycle]

\* launchBrowser: puppeteer.launch threw, the error is kept and the loop goes
\* on with the next value of attempt
LaunchRetry ==
  /\ UNCHANGED aux
  /\ Launching /\ CanAttempt(AttemptOf(mainPc))
  /\ mainPc' = LaunchPcs[AttemptOf(mainPc) + 2]
  /\ UNCHANGED <<sched, cyc, files>>

\* main(): the loop of launchBrowser is over and "throw lastError" reaches the
\* catch of main(), process.exit(1)
MainLaunchFailed ==
  /\ UNCHANGED aux
  /\ Launching /\ ~CanAttempt(AttemptOf(mainPc))
  /\ Exit("exit_launch")
  /\ UNCHANGED files

\* main(): fs.mkdir of the profile directory threw, or the page that verifies
\* the launched browser could not be opened, process.exit(1)
MainSetupFailed ==
  /\ UNCHANGED aux
  /\ Launching /\ CanAttempt(AttemptOf(mainPc))
  /\ Exit("exit_setup")
  /\ UNCHANGED files

\* mutant: the tick goes on without looking at the busy flag
TickBusyIgnored(busy) == FALSE

\* the test of "if (!userDataRetrival)" in the setInterval callback
TickBusy(busy) == busy

\* mutant: the harvest starts one tick late
HarvestDueLate(count) == count > targetUserDataCount

\* "if (userDataCount >= targetUserDataCount)" after the increment
HarvestDue(count) == count >= targetUserDataCount

\* mutant: the harvesting counter stays one below its threshold
CountAfterHarvestKept == targetUserDataCount - 1

\* "userDataCount = 0" when the harvesting cycle is started
CountAfterHarvest == 0

\* mutant: the camouflage runs only when the counter is at the threshold
CamouflageDueExact(count) == count = targetGoogleKeepAliveCount

\* "else if (googleKeepAliveCount >= targetGoogleKeepAliveCount)"
CamouflageDue(count) == count >= targetGoogleKeepAliveCount

\* one firing of the setInterval callback
Tick ==
  /\ UNCHANGED aux
  /\ Running
  /\ \E connected \in BOOLEAN :
       IF ~connected
       THEN /\ Exit("exit_disconnected")
            /\ UNCHANGED files
       ELSE IF TickBusy(userDataRetrival)
       THEN UNCHANGED vars
       ELSE IF HarvestDue(userDataCount + 1)
       THEN /\ harvestStarts < MaxStarts
            /\ harvestStarts' = harvestStarts + 1
            /\ \E c \in Cycles :
                 /\ ~InFlight(c)
                 /\ \A d \in Cycles : d < c => InFlight(d)
                 /\ cyc' = [cyc EXCEPT ![c] = StartCycle(c, "tick")]
            /\ userDataCount' = CountAfterHarvest
            /\ googleKeepAliveCount' = googleKeepAliveCount + 1
            /\ userDataRetrival' = TRUE
            /\ UNCHANGED <<mainPc, keepAlive, files>>
       ELSE IF CamouflageDue(googleKeepAliveCount + 1)
       THEN /\ keepAlive < MaxKeepAlive
            /\ userDataCount' = userDataCount + 1
            /\ googleKeepAliveCount' = 0
            /\ keepAlive' = keepAlive + 1
            /\ UNCHANGED <<mainPc, userDataRetrival, harvestStarts, cyc, files>>
       ELSE /\ userDataCount' = userDataCount + 1
            /\ googleKeepAliveCount' = googleKeepAliveCount + 1
            /\ UNCHANGED <<mainPc, userDataRetrival, keepAlive, harvestStarts,
                           cyc, files>>

\* googleKeepAlive() returns (its own failures are caught inside)
KeepAliveDone ==
  /\ UNCHANGED aux
  /\ Running
  /\ keepAlive > 0
  /\ keepAlive' = keepAlive - 1
  /\ UNCHANGED <<mainPc, userDataCount, googleKeepAliveCount, userDataRetrival,
                 harvestStarts, cyc, files>>

\* ------------------------------------------- getInstagramData / getUserData
\* the call chain rejects: a tick's callback catches and logs it, while the
\* startup call of main() is not guarded, so main().catch ends the process
Throw(c) ==
  IF cyc[c].origin = "startup"
  THEN Exit("exit_rejected")
  ELSE /\ cyc' = [cyc EXCEPT ![c] = IdleCycle]
       /\ UNCHANGED <<mainPc, sched>>

\* the same when tab.setViewport threw: processLinkInTab's try/finally was not
\* entered yet, so nothing closes the tab that browser.newPage() opened
ThrowLeavingTab(c) ==
  IF cyc[c].origin = "startup"
  THEN Exit("exit_rejected")
  ELSE /\ cyc' = [cyc EXCEPT ![c] = [IdleCycle EXCEPT !.tab = TRUE]]
       /\ UNCHANGED <<mainPc, sched>>

\* getUserData: the href filter with the cap maxLinksPerUser
RECURSIVE FilterLinks(_, _)
FilterLinks(links, acc) ==
  IF links = <<>> THEN acc
  ELSE FilterLinks(Tail(links),
                   IF Len(acc) < maxLinksPerUser THEN Append(acc, Head(links)) ELSE acc)

\* where getUserData continues once the links of username u are done
AfterLinks(cy) ==
  IF cy.u < Len(usernameArray)
  THEN [cy EXCEPT !.pc = "extract", !.u = cy.u + 1, !.hrefs = <<>>, !.i = 0]
  ELSE [cy EXCEPT !.pc = "profiles", !.hrefs = <<>>, !.i = 0]

\* where getUserData continues once processLinkInTab for link i has returned
AfterLink(cy) ==
  IF cy.i < Len(cy.hrefs)
  THEN [cy EXCEPT !.pc = "plt_check", !.i = cy.i + 1]
  ELSE AfterLinks(cy)

CurLink(c) == cyc[c].hrefs[cyc[c].i]

\* getInstagramData up to getUserData's login check: mkdir, newPage, goto,
\* isInstagramLoggedIn / waitForManualLogin; any of them may throw
Open(c) ==
  /\ UNCHANGED aux
  /\ Running /\ cyc[c].pc = "open"
  /\ \E ok \in BOOLEAN :
       IF ok
       THEN /\ cyc' = [cyc EXCEPT ![c].pc = "extract", ![c].u = 1]
            /\ UNCHANGED <<mainPc, sched>>
       ELSE Throw(c)
  /\ UNCHANGED files

\* getUserData, one username: goto, page.content, extractProfileStats,
\* extractUserHrefPaths, filter, write profile-<username>.json
Extract(c) ==
  /\ UNCHANGED aux
  /\ Running /\ cyc[c].pc = "extract"
  /\ \E ok \in BOOLEAN :
       IF ok
       THEN LET links == [k \in 1..pageLinks |-> k]
                rec == [username |-> usernameArray[cyc[c].u], links |-> links]
                cy == [cyc[c] EXCEPT !.hrefs = FilterLinks(links, <<>>),
                                     !.combined = Append(@, rec)]
            IN /\ cyc' = [cyc EXCEPT ![c] =
                    IF cy.hrefs = <<>> THEN AfterLinks(cy)
                    ELSE [cy EXCEPT !.pc = "plt_check", !.i = 1]]
               /\ UNCHANGED <<mainPc, sched>>
       ELSE Throw(c)
  /\ UNCHANGED files

\* ------------------------------------------------------- processLinkInTab
\* loadAllReels() returned: skip when the link is already downloaded
PltCheck(c) ==
  /\ UNCHANGED aux
  /\ Running /\ cyc[c].pc = "plt_check"
  /\ cyc' = [cyc EXCEPT ![c] =
       IF AlreadyProcessed(loadAllReels, CurLink(c))
       THEN AfterLink([cyc[c] EXCEPT !.outcome = "skipped"])
       ELSE [cyc[c] EXCEPT !.pc = "ph_load", !.outcome = "none"]]
  /\ UNCHANGED <<mainPc, sched, files>>

\* mutant: the finally leaves the tab open
TabAfterFinallyOpen == TRUE

\* "finally { await tab.close().catch(() => { }); }" of processLinkInTab
TabAfterFinally == FALSE

\* upsertReelEntry (placeholder): loadAllReels() returned, find-or-create and
\* mutate ran, saveAllReels is awaited
PhLoad(c) ==
  /\ UNCHANGED aux
  /\ Running /\ cyc[c].pc = "ph_load"
  /\ cyc' = [cyc EXCEPT ![c].pc = "ph_save",
                        ![c].list = upsertPlaceholder(loadAllReels, CurLink(c))]
  /\ UNCHANGED <<mainPc, sched, files>>

\* upsertReelEntry (placeholder): saveAllReels wrote the file, or threw; then
\* browser.newPage() / setViewport. Both are outside processLinkInTab's try, so
\* a throw leaves getUserData. Then, inside the try, the reel's native page:
\* goto, save html, scrapeReelMetadataFromPage; a throw there is caught and the
\* finally closes the tab
PhSave(c) ==
  /\ UNCHANGED aux
  /\ Running /\ cyc[c].pc = "ph_save"
  /\ \E r \in {"saveThrew", "newPageThrew", "viewportThrew", "reelFailed", "ok"} :
       /\ IF r = "saveThrew" THEN UNCHANGED <<ledger, fileKind>>
                            ELSE saveAllReels(cyc[c].list)
       /\ IF r \in {"saveThrew", "newPageThrew"}
          THEN Throw(c)
          ELSE IF r = "viewportThrew"
          THEN ThrowLeavingTab(c)
          ELSE /\ cyc' = [cyc EXCEPT ![c] =
                    IF r = "ok"
                    THEN [cyc[c] EXCEPT !.pc = "meta_load", !.list = <<>>,
                                        !.tab = TRUE]
                    ELSE AfterLink([cyc[c] EXCEPT !.list = <<>>,
                                                  !.outcome = "failed"])]
               /\ UNCHANGED <<mainPc, sched>>
  /\ UNCHANGED <<allProfiles, latestFile, pageLinks, reelMeta>>

\* upsertReelEntry (scraped metadata): load and mutate
MetaLoad(c) ==
  /\ UNCHANGED aux
  /\ Running /\ cyc[c].pc = "meta_load"
  /\ cyc' = [cyc EXCEPT ![c].pc = "meta_save",
                        ![c].list = upsertMeta(loadAllReels, CurLink(c), reelMeta)]
  /\ UNCHANGED <<mainPc, sched, files>>

\* upsertReelEntry (scraped metadata): save; a throw is caught by the try and
\* the finally closes the tab
MetaSave(c) ==
  /\ UNCHANGED aux
  /\ Running /\ cyc[c].pc = "meta_save"
  /\ \E ok \in BOOLEAN :
       IF ok
       THEN /\ saveAllReels(cyc[c].list)
            /\ cyc' = [cyc EXCEPT ![c].pc = "drive", ![c].list = <<>>]
       ELSE /\ cyc' = [cyc EXCEPT ![c] =
                 AfterLink([cyc[c] EXCEPT !.list = <<>>, !.tab = TabAfterFinally,
                                          !.outcome = "failed"])]
            /\ UNCHANGED <<ledger, fileKind>>
  /\ UNCHANGED <<mainPc, sched, allProfiles, latestFile, pageLinks, reelMeta>>

\* the file the redirector's download of a link writes to the Downloads dir
FileOf(linkUrl) == linkUrl

\* mutant: the branch of the download is taken without a click
DownloadBranchAlways(clicked) == TRUE

\* "if (clicked)" after the evaluate that looks for the button
DownloadBranch(clicked) == clicked

\* the redirector: goto, type the link, submit, sleep 10 s, look for the
\* "Download Video" button and click it; a click may put a new file into the
\* Downloads dir before the directory is inspected. Without a click, or on a
\* throw, the finally closes the tab and processLinkInTab returns
Drive(c) ==
  /\ UNCHANGED aux
  /\ Running /\ cyc[c].pc = "drive"
  /\ \E r \in {"throw", "noButton", "clicked"}, newFile \in BOOLEAN :
       IF r # "throw" /\ DownloadBranch(r = "clicked")
       THEN /\ cyc' = [cyc EXCEPT ![c].pc = "latest",
                                  ![c].clicked = (r = "clicked")]
            /\ latestFile' = IF newFile /\ r = "clicked"
                              THEN FileOf(CurLink(c)) ELSE latestFile
       ELSE /\ cyc' = [cyc EXCEPT ![c] =
                 AfterLink([cyc[c] EXCEPT !.tab = TabAfterFinally,
                     !.outcome = IF r = "throw" THEN "failed" ELSE "noButton"])]
            /\ UNCHANGED latestFile
  /\ UNCHANGED <<mainPc, sched, ledger, allProfiles, pageLinks, reelMeta, fileKind>>

\* sleep 3 s, getLatestDownloadedFile()
Latest(c) ==
  /\ UNCHANGED aux
  /\ Running /\ cyc[c].pc = "latest"
  /\ cyc' = [cyc EXCEPT ![c].pc = "dl_load", ![c].latest = latestFile]
  /\ UNCHANGED <<mainPc, sched, files>>

\* upsertReelEntry (downloaded = true): load and mutate
DlLoad(c) ==
  /\ UNCHANGED aux
  /\ Running /\ cyc[c].pc = "dl_load"
  /\ cyc' = [cyc EXCEPT ![c].pc = "dl_save",
                        ![c].list = upsertDownloaded(loadAllReels, CurLink(c),
                                                       cyc[c].latest)]
  /\ UNCHANGED <<mainPc, sched, files>>

\* upsertReelEntry (downloaded = true): save, a throw is caught by the try;
\* finally: tab.close(); processLinkInTab returns, getUserData sleeps 1 s and
\* goes on with the next link
DlSave(c) ==
  /\ UNCHANGED aux
  /\ Running /\ cyc[c].pc = "dl_save"
  /\ \E ok \in BOOLEAN :
       /\ IF ok THEN saveAllReels(cyc[c].list)
                ELSE UNCHANGED <<ledger, fileKind>>
       /\ cyc' = [cyc EXCEPT ![c] =
            AfterLink([cyc[c] EXCEPT !.list = <<>>, !.latest = Null,
                         !.clicked = FALSE, !.tab = TabAfterFinally,
                         !.outcome = IF ok THEN "clicked" ELSE "failed"])]
  /\ UNCHANGED <<mainPc, sched, allProfiles, latestFile, pageLinks, reelMeta>>

\* getUserData: write the combined profiles to allProfiles.json, call
\* convertMP4toMP3
Profiles(c) ==
  /\ UNCHANGED aux
  /\ Running /\ cyc[c].pc = "profiles"
  /\ \E ok \in BOOLEAN :
       IF ok
       THEN /\ allProfiles' = [exists |-> TRUE, profiles |-> cyc[c].combined]
            /\ cyc' = [cyc EXCEPT ![c].pc = "conv_load", ![c].combined = <<>>,
                                  ![c].outcome = "none"]
            /\ UNCHANGED <<mainPc, sched>>
       ELSE /\ Throw(c)
            /\ UNCHANGED allProfiles
  /\ UNCHANGED <<ledger, latestFile, pageLinks, reelMeta, fileKind>>

\* --------------------------------------------------------- convertMP4toMP3
\* the three "continue" tests at the head of the sweep's loop
Eligible(entry) ==
  entry.downloaded /\ ~entry.isConverted /\ entry.filePath # Null

\* the loop runs synchronously up to the next record that passes the tests;
\* 0 when the loop is over
NextEligible(reels, from) ==
  LET rest == {k \in from..Len(reels) : Eligible(reels[k])}
  IN IF rest = {} THEN 0 ELSE CHOOSE k \in rest : \A m \in rest : k <= m

\* finalOutputPath: the record's mp3FilePath when it has one, else the input
\* path with its extension replaced by .mp3 (the .mp3 sibling of file f is -f)
Mp3Of(entry) ==
  IF entry.mp3FilePath # Null THEN entry.mp3FilePath ELSE 0 - entry.filePath

\* mutant: the audio extraction runs whatever the probe found
ExtractsAudioAlways(hasAudio) == TRUE

\* "if (hasAudio)" after the probe
ExtractsAudio(hasAudio) == hasAudio

\* the body of the sweep's loop for one record: probe, audio extraction when
\* the probe saw an audio stream (ffmpeg may throw), upload of the audio, upload
\* of the video (uploadFileToServer never throws, it returns null), mark
ConvertEntry(entry, hasAudio, ffmpegOk, mp4Url) ==
  IF ExtractsAudio(hasAudio) /\ ~ffmpegOk
  THEN [entry |-> entry, threw |-> TRUE, calls |-> {"probe", "ffmpeg"}]
  ELSE IF ExtractsAudio(hasAudio)
  THEN [entry |-> [entry EXCEPT !.mp3FilePath = Mp3Of(entry),
                                !.serverMP4Url = mp4Url,
                                !.isConverted = TRUE],
        threw |-> FALSE,
        calls |-> {"probe", "ffmpeg", "uploadMP3", "uploadMP4"}]
  ELSE [entry |-> [entry EXCEPT !.serverMP4Url = mp4Url, !.isConverted = TRUE],
        threw |-> FALSE,
        calls |-> {"probe", "uploadMP4"}]

\* loadAllReels() returned; the loop runs up to the first probe
ConvLoad(c) ==
  /\ UNCHANGED aux
  /\ Running /\ cyc[c].pc = "conv_load"
  /\ LET j == NextEligible(loadAllReels, 1)
     IN cyc' = [cyc EXCEPT ![c].reels = loadAllReels, ![c].changed = FALSE,
                           ![c].j = j,
                           ![c].pc = IF j = 0 THEN "backfill" ELSE "convert"]
  /\ UNCHANGED <<mainPc, sched, files>>

\* one iteration of the sweep's loop on the sweep's own copy of the ledger
Convert(c) ==
  /\ UNCHANGED aux
  /\ Running /\ cyc[c].pc = "convert"
  /\ \E hasAudio \in BOOLEAN, ffmpegOk \in BOOLEAN, mp4Url \in {Null, Url} :
       LET j == cyc[c].j
           r == ConvertEntry(cyc[c].reels[j], hasAudio, ffmpegOk, mp4Url)
           reels2 == [cyc[c].reels EXCEPT ![j] = r.entry]
           j2 == NextEligible(reels2, j + 1)
       IN cyc' = [cyc EXCEPT
                    ![c].reels = reels2,
                    ![c].changed = cyc[c].changed \/ ~r.threw,
                    ![c].conv = [idx |-> j, hasAudio |-> hasAudio,
                                 calls |-> r.calls, threw |-> r.threw],
                    ![c].j = j2,
                    ![c].pc = IF j2 = 0 THEN "backfill" ELSE "convert"]
  /\ UNCHANGED <<mainPc, sched, files>>

\* p.links.find((l) => entry.linkUrl.includes(l.href)) for some profile p
MatchesProfile(entry, profiles) ==
  \E p \in 1..Len(profiles) : \E l \in 1..Len(profiles[p].links) :
    profiles[p].links[l] = entry.linkUrl

\* mutant: the sweep always counts as changed
SweepChangedAlways(changed, matched) == TRUE

\* "changed = true" of the back-fill, tested by "if (changed)"
SweepChanged(changed, matched) == changed \/ matched

\* the back-fill from allProfiles.json: a missing file is caught; a match sets
\* changed (the engagement counters are not part of the modelled record).
\* Without a change convertMP4toMP3 returns, and after a sleep and page.close()
\* so does the call chain
Backfill(c) ==
  /\ UNCHANGED aux
  /\ Running /\ cyc[c].pc = "backfill"
  /\ LET matched == /\ allProfiles.exists
                    /\ \E k \in 1..Len(cyc[c].reels) :
                         MatchesProfile(cyc[c].reels[k], allProfiles.profiles)
         changed == SweepChanged(cyc[c].changed, matched)
     IN cyc' = [cyc EXCEPT ![c] =
          IF changed
          THEN [cyc[c] EXCEPT !.changed = TRUE, !.j = 0, !.conv = IdleCycle.conv,
                              !.pc = "conv_save"]
          ELSE IdleCycle]
  /\ UNCHANGED <<mainPc, sched, files>>

\* if (changed) saveAllReels(reels): the sweep's copy replaces the file
ConvSave(c) ==
  /\ UNCHANGED aux
  /\ Running /\ cyc[c].pc = "conv_save"
  /\ \E ok \in BOOLEAN :
       IF ok
       THEN /\ saveAllReels(cyc[c].reels)
            /\ cyc' = [cyc EXCEPT ![c].pc = "sync_profiles", ![c].reels = <<>>]
            /\ UNCHANGED <<mainPc, sched>>
       ELSE /\ Throw(c)
            /\ UNCHANGED <<ledger, fileKind>>
  /\ UNCHANGED <<allProfiles, latestFile, pageLinks, reelMeta>>

\* updateUserProfiles(): every failure inside is caught
UpdateUserProfiles(c) ==
  /\ UNCHANGED aux
  /\ Running /\ cyc[c].pc = "sync_profiles"
  /\ cyc' = [cyc EXCEPT ![c].pc = "sync_content"]
  /\ UNCHANGED <<mainPc, sched, files>>

\* "userDataRetrival = false" after updateContentReels() in the changed branch
BusyAfterSync(busy) == FALSE

\* updateContentReels() returned (every failure inside is caught); the busy
\* flag is cleared, and after a sleep and page.close() the call chain returns
UpdateContentReels(c) ==
  /\ UNCHANGED aux
  /\ Running /\ cyc[c].pc = "sync_content"
  /\ cyc' = [cyc EXCEPT ![c] = IdleCycle]
  /\ userDataRetrival' = BusyAfterSync(userDataRetrival)
  /\ UNCHANGED <<mainPc, userDataCount, googleKeepAliveCount, keepAlive,
                 harvestStarts, files>>

Harvest(c) ==
  \/ Open(c) \/ Extract(c) \/ PltCheck(c) \/ PhLoad(c) \/ PhSave(c)
  \/ MetaLoad(c) \/ MetaSave(c) \/ Drive(c)
  \/ Latest(c) \/ DlLoad(c) \/ DlSave(c) \/ Profiles(c)
  \/ ConvLoad(c) \/ Convert(c) \/ Backfill(c) \/ ConvSave(c)
  \/ UpdateUserProfiles(c) \/ UpdateContentReels(c)

Next ==
  \/ MainLaunched \/ LaunchRetry \/ MainLaunchFailed \/ MainSetupFailed
  \/ Tick \/ KeepAliveDone
  \/ \E c \in Cycles : Harvest(c)

Spec == Init /\ [][Next]_vars
SpecHarvest == InitHarvest /\ [][Next]_vars
SpecWide == InitWide /\ [][Next]_vars
SpecZero == InitZero /\ [][Next]_vars

\* the runs above are on reels whose native pages yield no metadata; here the
\* page shows one reel and its native page yields metadata
InitMeta ==
  /\ InitProcess
  /\ userDataCount = MaxSeed
  /\ pageLinks = 1
  /\ reelMeta = Scraped
SpecMeta == InitMeta /\ [][Next]_vars

\* the startup cycle on its own, before the timer fires, on a page of up to
\* WideLinks links
NextStartup ==
  \/ MainLaunched \/ LaunchRetry \/ MainLaunchFailed \/ MainSetupFailed
  \/ Harvest(1)
SpecStartup == InitWide /\ [][NextStartup]_vars

\* ----------------------------------------------- the ledger store on its own
\* the links of the calls, and the records and lists a ledger file can hold
\* when the calls begin (linkUrls unique, written at time 0)
StoreLists ==
  LET StoreLinks == 1..WideLinks
      StoreEntries(l) ==
        {[linkUrl |-> l, downloaded |-> d,
          filePath |-> IF d THEN FileOf(l) ELSE Null,
          mp3FilePath |-> Null, isConverted |-> FALSE, serverMP4Url |-> Null,
          lastUpdated |-> 0, meta |-> Null] : d \in BOOLEAN}
  IN {<<>>}
     \cup {<<e>> : e \in UNION {StoreEntries(l) : l \in StoreLinks}}
     \cup UNION {{<<e, f>> : e \in StoreEntries(p[1]), f \in StoreEntries(p[2])} :
                  p \in {q \in StoreLinks \X StoreLinks : q[1] # q[2]}}

\* nothing of the process runs; the backing file is in any of its four kinds
InitStore ==
  /\ mainPc = "store"
  /\ userDataCount = 0
  /\ googleKeepAliveCount = initialGoogleKeepAliveCount
  /\ userDataRetrival = FALSE
  /\ keepAlive = 0
  /\ harvestStarts = 0
  /\ cyc = [c \in Cycles |-> IdleCycle]
  /\ allProfiles = [exists |-> FALSE, profiles |-> <<>>]
  /\ latestFile = Null
  /\ pageLinks = 0
  /\ reelMeta = Null
  /\ fileKind \in {"missing", "invalid", "notArray", "array"}
  /\ ledger \in IF fileKind \in {"missing", "invalid"} THEN {<<>>} ELSE StoreLists
  /\ now = 1
  /\ lastCall = NoCall
  /\ sync = NoSync
  /\ calc = NoCalc

\* what every call of upsertReelEntry does around its mutation: load, save,
\* and the clock moves on
StoreCall(l, m, out) ==
  /\ mainPc = "store"
  /\ now <= MaxClock
  /\ saveAllReels(out)
  /\ lastCall' = [linkUrl |-> l, mutate |-> m, found |-> fileKind,
                  again |-> (m = "noop" /\ lastCall.mutate = "noop"
                               /\ lastCall.linkUrl = l)]
  /\ now' = now + 1
  /\ UNCHANGED <<mainPc, sched, cyc, allProfiles, latestFile, pageLinks, reelMeta, sync,
                 calc>>

\* await upsertReelEntry(linkUrl, () => {})
StoreUpsertNoop ==
  \E l \in 1..WideLinks : StoreCall(l, "noop", upsertNoop(loadAllReels, l))

\* await upsertReelEntry(linkUrl, mutate) with the mutations of processLinkInTab
StoreUpsertMutating ==
  \E l \in 1..WideLinks :
    \/ StoreCall(l, "placeholder", upsertPlaceholder(loadAllReels, l))
    \/ StoreCall(l, "downloaded", upsertDownloaded(loadAllReels, l, FileOf(l)))

NextStore == StoreUpsertNoop \/ StoreUpsertMutating

SpecStore == InitStore /\ [][NextStore]_vars

\* ------------------------------- updateUserProfiles and updateContentReels
\* a linkUrl is held as the segments of its path, what
\* new URL(r.linkUrl).pathname.split("/").filter(Boolean) returns
SyncEntries ==
  {[linkUrl |-> l, downloaded |-> TRUE, filePath |-> 1, mp3FilePath |-> Null,
    isConverted |-> TRUE, serverMP4Url |-> m, lastUpdated |-> 0,
    meta |-> Null] :
     l \in {<<"alice", "reel", "A">>, <<"alice", "reel", "B">>,
            <<"bob", "reel", "X">>, <<"constructor", "reel", "C">>,
            <<"reel", "Z">>},
     m \in {Null, Url}}

\* sequences of at most n elements of S / without a linkUrl twice
RECURSIVE SeqsUpTo(_, _)
SeqsUpTo(S, n) ==
  IF n = 0 THEN {<<>>}
  ELSE SeqsUpTo(S, n - 1)
       \cup {Append(q, e) : q \in {r \in SeqsUpTo(S, n - 1) : Len(r) = n - 1},
                            e \in S}

\* the keys every object literal inherits: reelsByUser[key] is truthy for them
\* before anything is stored
ObjectPrototypeKeys ==
  {"constructor", "__proto__", "toString", "valueOf", "hasOwnProperty"}

\* const res = await fetch(...): res.ok, !res.ok, or fetch throws
PutResults == {"ok", "notOk", "threw"}

\* one iteration of the grouping loop: acc is reelsByUser in the order of
\* Object.entries
GroupOne(acc, r) ==
  IF r.serverMP4Url = Null THEN acc
  ELSE IF Len(r.linkUrl) < 3 THEN acc
  ELSE LET username == r.linkUrl[1]
           item == [entry |-> r, code |-> r.linkUrl[3]]
           at == {i \in DOMAIN acc : acc[i].username = username}
       IN IF username \in ObjectPrototypeKeys
          THEN acc   \* the inherited value has no push: TypeError, caught
          ELSE IF at = {}
          THEN Append(acc, [username |-> username, items |-> <<item>>])
          ELSE LET i == CHOOSE i \in at : TRUE
               IN [acc EXCEPT ![i].items = Append(@, item)]

\* the grouping loop of updateContentReels over the first k records
RECURSIVE GroupReels(_, _)
GroupReels(reels, k) ==
  IF k = 0 THEN <<>> ELSE GroupOne(GroupReels(reels, k - 1), reels[k])

\* mutant: a PUT that did not succeed ends the loop
AfterPutAbort(res, rest) == IF res = "ok" THEN rest ELSE <<>>

\* what is left of a loop of PUTs after one PUT: "continue" on !res.ok, and
\* the catch falls through to the next iteration
AfterPut(res, rest) == rest

\* the two calls as convertMP4toMP3 makes them after saveAllReels(reels)
InitSync ==
  /\ mainPc = "sync"
  /\ userDataCount = 0
  /\ googleKeepAliveCount = initialGoogleKeepAliveCount
  /\ userDataRetrival = TRUE
  /\ keepAlive = 0
  /\ harvestStarts = 0
  /\ cyc = [c \in Cycles |-> IdleCycle]
  /\ latestFile = Null
  /\ pageLinks = 0
  /\ reelMeta = Null
  /\ fileKind = "array"
  /\ ledger \in {l \in SeqsUpTo(SyncEntries, MaxSyncReels) :
                   \A i, j \in DOMAIN l : l[i].linkUrl = l[j].linkUrl => i = j}
  /\ allProfiles \in
       {[exists |-> FALSE, profiles |-> <<>>]}
       \cup {[exists |-> TRUE, profiles |-> q] :
               q \in SeqsUpTo({[username |-> u] : u \in {"alice", "bob", ""}},
                             MaxSyncProfiles)}
  /\ now = 1
  /\ lastCall = NoCall
  /\ sync = [pc |-> "profiles_read", todo |-> <<>>, puts |-> <<>>]
  /\ calc = NoCalc

SyncKeeps ==
  UNCHANGED <<mainPc, sched, cyc, files, now, lastCall, calc>>

\* updateUserProfiles up to its loop: an unreadable file and an empty list
\* both return
SyncProfilesRead ==
  /\ mainPc = "sync" /\ sync.pc = "profiles_read"
  /\ IF allProfiles.exists /\ allProfiles.profiles # <<>>
     THEN sync' = [sync EXCEPT !.pc = "profiles_put",
                               !.todo = allProfiles.profiles]
     ELSE sync' = [sync EXCEPT !.pc = "content_read"]
  /\ SyncKeeps

\* one iteration of the loop of updateUserProfiles
SyncProfilePut ==
  /\ mainPc = "sync" /\ sync.pc = "profiles_put" /\ sync.todo # <<>>
  /\ LET p == Head(sync.todo)
     IN IF p.username = ""
        THEN sync' = [sync EXCEPT !.todo = Tail(@)]
        ELSE \E pic \in {"uploaded", "kept"}, res \in PutResults :
               sync' = [sync EXCEPT
                          !.puts = Append(@, [kind |-> "profile",
                                              username |-> p.username,
                                              reels |-> <<>>,
                                              pic |-> pic, res |-> res]),
                          !.todo = AfterPut(res, Tail(@))]
  /\ SyncKeeps

\* updateUserProfiles returns and convertMP4toMP3 calls updateContentReels
SyncProfilesEnd ==
  /\ mainPc = "sync" /\ sync.pc = "profiles_put" /\ sync.todo = <<>>
  /\ sync' = [sync EXCEPT !.pc = "content_read"]
  /\ SyncKeeps

\* updateContentReels up to its loop of PUTs
SyncContentRead ==
  /\ mainPc = "sync" /\ sync.pc = "content_read"
  /\ LET reels == loadAllReels
     IN IF reels = <<>>
        THEN sync' = [sync EXCEPT !.pc = "done"]
        ELSE sync' = [sync EXCEPT !.pc = "content_put",
                                  !.todo = GroupReels(reels, Len(reels))]
  /\ SyncKeeps

\* one iteration of the loop over Object.entries(reelsByUser)
SyncContentPut ==
  /\ mainPc = "sync" /\ sync.pc = "content_put" /\ sync.todo # <<>>
  /\ LET g == Head(sync.todo)
     IN \E res \in PutResults :
          sync' = [sync EXCEPT
                     !.puts = Append(@, [kind |-> "content",
                                         username |-> g.username,
                                         reels |-> [i \in DOMAIN g.items |->
                                                      g.items[i].entry],
                                         pic |-> "none", res |-> res]),
                     !.todo = AfterPut(res, Tail(@))]
  /\ SyncKeeps

\* updateContentReels returns
SyncContentEnd ==
  /\ mainPc = "sync" /\ sync.pc = "content_put" /\ sync.todo = <<>>
  /\ sync' = [sync EXCEPT !.pc = "done"]
  /\ SyncKeeps

NextSync ==
  \/ SyncProfilesRead
  \/ SyncProfilePut
  \/ SyncProfilesEnd
  \/ SyncContentRead
  \/ SyncContentPut
  \/ SyncContentEnd

SpecSync == InitSync /\ [][NextSync]_vars

\* ---------------------------------------------------------- normalizeCount
\* a string is held as the sequence of its characters
DigitChars == <<"0", "1", "2", "3", "4", "5", "6", "7", "8", "9">>
Digit == {DigitChars[i] : i \in DOMAIN DigitChars}
\* the class [\d.,] of the regular expression
NumChars == Digit \cup {".", ","}
\* what null stands for in an output
Absent == 0 - 1

RECURSIVE PrefixLen(_, _)
\* length of the longest prefix of s made of characters of S
PrefixLen(s, S) ==
  IF s = <<>> \/ Head(s) \notin S THEN 0 ELSE 1 + PrefixLen(Tail(s), S)
Take(s, n) == SubSeq(s, 1, n)
Drop(s, n) == SubSeq(s, n + 1, Len(s))

RECURSIVE TrimEnd(_)
TrimEnd(s) ==
  IF s # <<>> /\ s[Len(s)] = " " THEN TrimEnd(Take(s, Len(s) - 1)) ELSE s
\* String(raw).trim()
Trim(s) == TrimEnd(Drop(s, PrefixLen(s, {" "})))

\* s.match(/^([\d.,]+)\s*([KM])?$/i): the character classes are disjoint, so
\* the greedy match is the only one
MatchCount(s) ==
  LET n == PrefixLen(s, NumChars)
      rest == Drop(s, n)
      tail == Drop(rest, PrefixLen(rest, {" "}))
  IN [ok |-> n > 0 /\ (tail = <<>>
                        \/ (Len(tail) = 1 /\ tail[1] \in {"K", "M", "k", "m"})),
      num |-> Take(s, n),
      suffix |-> tail]

RECURSIVE StripCommas(_)
\* m[1].replaceAll(",", "")
StripCommas(s) ==
  IF s = <<>> THEN <<>>
  ELSE IF Head(s) = "," THEN StripCommas(Tail(s))
  ELSE <<Head(s)>> \o StripCommas(Tail(s))

RECURSIVE DecValue(_)
\* the number a sequence of digits denotes
DecValue(s) ==
  IF s = <<>> THEN 0
  ELSE 10 * DecValue(Take(s, Len(s) - 1))
       + (CHOOSE i \in DOMAIN DigitChars : DigitChars[i] = s[Len(s)]) - 1
RECURSIVE Pow10(_)
Pow10(n) == IF n = 0 THEN 1 ELSE 10 * Pow10(n - 1)

\* parseFloat(s): the longest prefix "digits[.digits]" or ".digits", NaN when
\* that prefix holds no digit; the value is num / den
ParseFloat(s) ==
  LET i == PrefixLen(s, Digit)
      after == Drop(s, i)
      f == IF after # <<>> /\ Head(after) = "." THEN PrefixLen(Tail(after), Digit)
           ELSE 0
      frac == IF f = 0 THEN <<>> ELSE Take(Tail(after), f)
  IN [nan |-> i = 0 /\ f = 0,
      num |-> DecValue(Take(s, i) \o frac),
      den |-> Pow10(f)]

\* (m[2] || "").toUpperCase()
ToUpperCase(s) ==
  [i \in DOMAIN s |-> CASE s[i] = "k" -> "K" [] s[i] = "m" -> "M"
                        [] s[i] = "b" -> "B" [] OTHER -> s[i]]
\* mutant: M counts as a thousand
CountMultThousand(suffix) ==
  IF suffix = <<"K">> \/ suffix = <<"M">> THEN 1000 ELSE 1

\* suffix === "K" ? 1_000 : suffix === "M" ? 1_000_000 : 1
CountMult(suffix) ==
  IF suffix = <<"K">> THEN 1000 ELSE IF suffix = <<"M">> THEN 1000000 ELSE 1
\* Math.round(num / den) for num >= 0: halves go up.  With at most three
\* fraction digits the double product num * mult that the code rounds is
\* closer to the exact one than to any half.
MathRound(num, den) == (num \div den) + (IF 2 * (num % den) >= den THEN 1 ELSE 0)

normalizeCount(raw) ==
  LET s == Trim(raw)
      m == MatchCount(s)
      v == ParseFloat(StripCommas(m.num))
  IN IF s = <<>> THEN Absent
     ELSE IF ~m.ok THEN Absent
     ELSE IF v.nan THEN Absent
     ELSE MathRound(v.num * CountMult(ToUpperCase(m.suffix)), v.den)

\* parseCount(str) of the content sync: "if (!str) return 0", commas removed,
\* upper case, a last character K, M or B taken off as the multiplier,
\* parseFloat (which skips leading blanks), 0 for NaN, Math.floor of the product
parseCount(str) ==
  LET clean == ToUpperCase(StripCommas(str))
      last == IF clean = <<>> THEN "" ELSE clean[Len(clean)]
      multiplier == CASE last = "K" -> 1000 [] last = "M" -> 1000000
                      [] last = "B" -> 1000000000 [] OTHER -> 1
      body == IF multiplier = 1 THEN clean ELSE Take(clean, Len(clean) - 1)
      val == ParseFloat(Drop(body, PrefixLen(body, {" "})))
  IN IF str = <<>> THEN 0
     ELSE IF val.nan THEN 0
     ELSE (val.num * multiplier) \div val.den

\* the tokens of the comment in normalizeCount, three tokens that end in a
\* half, and every token made of a short number part, a gap and a suffix
CountTokens ==
  LET ExampleTokens ==
        {<<"3", "3", "8">>, <<"1", ",", "2", "3", "4">>,
         <<"1", "2", ".", "3", "K">>, <<"4", ".", "5", "M">>}
      HalfTokens == {<<"0", ".", "5">>, <<"2", ".", "5">>, <<"1", ".", "5", "k">>}
      TokenNumChars == {"0", "1", ".", ","}
      TokenSuffixes == {<<>>, <<"K">>, <<"M">>, <<"B">>, <<"k">>, <<"m">>, <<"b">>}
      TokenGaps == {<<>>, <<" ">>}
  IN ExampleTokens \cup HalfTokens
     \cup {lead \o n \o gap \o suf :
             lead \in TokenGaps, n \in SeqsUpTo(TokenNumChars, MaxNumLen),
             gap \in TokenGaps, suf \in TokenSuffixes}

\* one call of normalizeCount or of parseCount on a token; parseCount gets the
\* tokens with suffix B only when they have one more character, so that the
\* product stays below 2^31
InitCount ==
  /\ mainPc = "count"
  /\ userDataCount = 0
  /\ googleKeepAliveCount = initialGoogleKeepAliveCount
  /\ userDataRetrival = FALSE
  /\ keepAlive = 0
  /\ harvestStarts = 0
  /\ cyc = [c \in Cycles |-> IdleCycle]
  /\ ledger = <<>>
  /\ allProfiles = [exists |-> FALSE, profiles |-> <<>>]
  /\ latestFile = Null
  /\ pageLinks = 0
  /\ reelMeta = Null
  /\ fileKind = "missing"
  /\ now = 0
  /\ lastCall = NoCall
  /\ sync = NoSync
  /\ calc \in {[fn |-> "normalizeCount", input |-> t, output |-> <<>>,
                 done |-> FALSE] : t \in CountTokens}
            \cup {[fn |-> "parseCount", input |-> t, output |-> <<>>,
                    done |-> FALSE] :
                    t \in {u \in CountTokens :
                             Len(u) <= 2 \/ u[Len(u)] \notin {"B", "b"}}}

\* normalizeCount(raw) is called and returns
CallNormalizeCount ==
  /\ mainPc = "count" /\ calc.fn = "normalizeCount" /\ ~calc.done
  /\ calc' = [calc EXCEPT !.output = normalizeCount(calc.input), !.done = TRUE]
  /\ UNCHANGED <<mainPc, sched, cyc, files, now, lastCall, sync>>

\* parseCount(str) is called and returns
CallParseCount ==
  /\ mainPc = "count" /\ calc.fn = "parseCount" /\ ~calc.done
  /\ calc' = [calc EXCEPT !.output = parseCount(calc.input), !.done = TRUE]
  /\ UNCHANGED <<mainPc, sched, cyc, files, now, lastCall, sync>>

SpecCount == InitCount /\ [][CallNormalizeCount \/ CallParseCount]_vars

\* ------------------------------ parseProfileStatsFromHtml, extractProfileStats
LowerLetters == <<"e", "f", "g", "i", "l", "n", "o", "p", "r", "s", "t", "w">>
UpperLetters == <<"E", "F", "G", "I", "L", "N", "O", "P", "R", "S", "T", "W">>
\* one character under the flag "i" of a regular expression
LowerCase(c) ==
  IF \E i \in DOMAIN UpperLetters : UpperLetters[i] = c
  THEN LowerLetters[CHOOSE i \in DOMAIN UpperLetters : UpperLetters[i] = c]
  ELSE c
UpperCase(c) ==
  IF \E i \in DOMAIN LowerLetters : LowerLetters[i] = c
  THEN UpperLetters[CHOOSE i \in DOMAIN LowerLetters : LowerLetters[i] = c]
  ELSE c

RECURSIVE ReplaceAll(_, _, _)
\* s.replaceAll(pat, to)
ReplaceAll(s, pat, to) ==
  IF Len(s) < Len(pat) THEN s
  ELSE IF Take(s, Len(pat)) = pat
  THEN to \o ReplaceAll(Drop(s, Len(pat)), pat, to)
  ELSE <<Head(s)>> \o ReplaceAll(Tail(s), pat, to)

decodeHtmlEntities(s) ==
  LET a == ReplaceAll(s, <<"&", "a", "m", "p", ";">>, <<"&">>)
      b == ReplaceAll(a, <<"&", "q", "u", "o", "t", ";">>, <<"dq">>)
      c == ReplaceAll(b, <<"&", "#", "0", "3", "9", ";">>, <<"sq">>)
      d == ReplaceAll(c, <<"&", "l", "t", ";">>, <<"<">>)
  IN ReplaceAll(d, <<"&", "g", "t", ";">>, <<">">>)

\* the label parts of the three regular expressions, up to their optional "s"
LabelFollowers == <<"f", "o", "l", "l", "o", "w", "e", "r">>
LabelFollowing == <<"f", "o", "l", "l", "o", "w", "i", "n", "g">>
LabelPosts == <<"p", "o", "s", "t">>

\* the text s starts with the label, letter case ignored
StartsWithLabel(s, label) ==
  /\ Len(s) >= Len(label)
  /\ \A i \in DOMAIN label : LowerCase(s[i]) = label[i]

\* ([\d.,]+\s*[KM]?)\s+label anchored at the start of s: the length of the
\* captured group, 0 when there is no match here
MatchLabelAt(s, label) ==
  LET n == PrefixLen(s, NumChars)
      r == Drop(s, n)
      a == PrefixLen(r, {" "})
      r2 == Drop(r, a)
      b == IF r2 = <<>> THEN 0 ELSE PrefixLen(Tail(r2), {" "})
  IN IF n = 0 THEN 0
     ELSE IF a >= 1 /\ StartsWithLabel(r2, label) THEN n + a - 1
     ELSE IF /\ r2 # <<>> /\ Head(r2) \in {"K", "M", "k", "m"} /\ b >= 1
             /\ StartsWithLabel(Drop(Tail(r2), b), label)
     THEN n + a + 1
     ELSE 0

\* find(label) / findInText(label): the group of the leftmost match, <<>> for
\* null
FindCount(content, label) ==
  LET hits == {i \in DOMAIN content : MatchLabelAt(Drop(content, i - 1), label) > 0}
  IN IF hits = {} THEN <<>>
     ELSE LET i == CHOOSE i \in hits : \A j \in hits : i <= j
          IN SubSeq(content, i, i + MatchLabelAt(Drop(content, i - 1), label) - 1)

\* html.meta is what the description meta tag holds in its content attribute,
\* <<>> when the page has no such tag
parseProfileStatsFromHtml(html) ==
  LET content == decodeHtmlEntities(html.meta)
  IN [source |-> IF content # <<>> THEN "meta:description" ELSE "none",
      posts |-> normalizeCount(FindCount(content, LabelPosts)),
      followers |-> normalizeCount(FindCount(content, LabelFollowers)),
      following |-> normalizeCount(FindCount(content, LabelFollowing)),
      textRead |-> FALSE]

\* mutant: the first tier counts only when it resolves all three
Tier1ResolvesAll(r) ==
  r.posts # Absent /\ r.followers # Absent /\ r.following # Absent

\* fromHtml.posts != null || fromHtml.followers != null || ...
Tier1Resolves(r) ==
  r.posts # Absent \/ r.followers # Absent \/ r.following # Absent

\* the counts of extractProfileStats; html.text is the visible text that
\* page.evaluate returns (<<>> when it fails)
extractProfileStats(html) ==
  LET fromHtml == parseProfileStatsFromHtml(html)
  IN IF Tier1Resolves(fromHtml) THEN fromHtml
     ELSE [source |-> "dom:visibleText",
           posts |-> normalizeCount(FindCount(html.text, LabelPosts)),
           followers |-> normalizeCount(FindCount(html.text, LabelFollowers)),
           following |-> normalizeCount(FindCount(html.text, LabelFollowing)),
           textRead |-> TRUE]

\* the pages: a description made of up to three chunks "count label" in any
\* order and letter case, and a visible text with other counts
LabelWords == <<<<"f", "o", "l", "l", "o", "w", "e", "r", "s">>,
                <<"f", "o", "l", "l", "o", "w", "i", "n", "g">>,
                <<"p", "o", "s", "t", "s">>>>
MetaCounts == <<<<"1", "5", "0">>, <<"1", "2">>, <<"3", "4">>>>
\* one chunk: the count of label k, a space, the label in the letter case
Chunk(counts, k, style) ==
  LET w == LabelWords[k]
  IN counts[k] \o <<" ">> \o
       [i \in DOMAIN w |-> IF style = "UPPER" \/ (style = "Title" /\ i = 1)
                            THEN UpperCase(w[i]) ELSE w[i]]
\* the chunks of the labels of order, joined by ", "
RECURSIVE JoinChunks(_, _, _)
JoinChunks(counts, order, style) ==
  IF order = <<>> THEN <<>>
  ELSE IF Len(order) = 1 THEN Chunk(counts, order[1], style)
  ELSE Chunk(counts, order[1], style) \o <<",", " ">>
         \o JoinChunks(counts, Tail(order), style)
\* every order of every subset of the three labels, with or without a tail
Pages ==
  LET TextCounts == <<<<"7">>, <<"8">>, <<"9">>>>
      LabelOrders ==
        {q \in SeqsUpTo(1..3, 3) : \A i, j \in DOMAIN q : q[i] = q[j] => i = j}
      MetaTails ==
        {<<>>, <<" ", "&", "a", "m", "p", ";", " ", "5", " ", "m", "o", "r", "e">>}
  IN {[order |-> o, style |-> st,
       meta |-> JoinChunks(MetaCounts, o, st) \o
                  (IF o = <<>> THEN <<>> ELSE tl),
       text |-> JoinChunks(TextCounts, t, "lower")] :
        o \in LabelOrders, st \in {"lower", "Title", "UPPER"}, tl \in MetaTails,
        t \in {<<>>, <<1>>, <<3, 1, 2>>}}

InitStats ==
  /\ mainPc = "stats"
  /\ userDataCount = 0
  /\ googleKeepAliveCount = initialGoogleKeepAliveCount
  /\ userDataRetrival = FALSE
  /\ keepAlive = 0
  /\ harvestStarts = 0
  /\ cyc = [c \in Cycles |-> IdleCycle]
  /\ ledger = <<>>
  /\ allProfiles = [exists |-> FALSE, profiles |-> <<>>]
  /\ latestFile = Null
  /\ pageLinks = 0
  /\ reelMeta = Null
  /\ fileKind = "missing"
  /\ now = 0
  /\ lastCall = NoCall
  /\ sync = NoSync
  /\ calc \in {[fn |-> "extractProfileStats", input |-> pg, output |-> <<>>,
                 done |-> FALSE] : pg \in Pages}

\* extractProfileStats(page, html, ...) is called and returns
CallExtractProfileStats ==
  /\ mainPc = "stats" /\ calc.fn = "extractProfileStats" /\ ~calc.done
  /\ calc' = [calc EXCEPT !.output = extractProfileStats(calc.input),
                          !.done = TRUE]
  /\ UNCHANGED <<mainPc, sched, cyc, files, now, lastCall, sync>>


SpecStats == InitStats /\ [][CallExtractProfileStats]_vars

\* ------------------------------------------- the cap on the links of a user
\* extractUserHrefPaths: one result per distinct href, at most limit results
ExtractedLinks(anchors) ==
  [k \in 1..(IF anchors < extractLimit THEN anchors ELSE extractLimit) |-> k]

RECURSIVE FilterLinksIndex(_, _)
\* the href filter of getUserData in src/index.js
FilterLinksIndex(links, acc) ==
  IF links = <<>> THEN acc
  ELSE FilterLinksIndex(Tail(links),
                        IF Len(acc) <= indexMaxLinksPerUser
                        THEN Append(acc, Head(links)) ELSE acc)

InitCap ==
  /\ mainPc = "cap"
  /\ userDataCount = 0
  /\ googleKeepAliveCount = initialGoogleKeepAliveCount
  /\ userDataRetrival = FALSE
  /\ keepAlive = 0
  /\ harvestStarts = 0
  /\ cyc = [c \in Cycles |-> IdleCycle]
  /\ ledger = <<>>
  /\ allProfiles = [exists |-> FALSE, profiles |-> <<>>]
  /\ latestFile = Null
  /\ pageLinks \in 0..MaxAnchors
  /\ reelMeta = Null
  /\ fileKind = "missing"
  /\ now = 0
  /\ lastCall = NoCall
  /\ sync = NoSync
  /\ calc = NoCalc

\* the links getUserData queues for one username, a page of pageLinks anchors
CallFilterLinks ==
  /\ mainPc = "cap" /\ ~calc.done
  /\ calc' = [fn |-> "getUserData", input |-> pageLinks,
              output |-> FilterLinks(ExtractedLinks(pageLinks), <<>>),
              done |-> TRUE]
  /\ UNCHANGED <<mainPc, sched, cyc, files, now, lastCall, sync>>

\* the same for getUserData of src/index.js
CallFilterLinksIndex ==
  /\ mainPc = "cap" /\ ~calc.done
  /\ calc' = [fn |-> "index.getUserData", input |-> pageLinks,
              output |-> FilterLinksIndex(ExtractedLinks(pageLinks), <<>>),
              done |-> TRUE]
  /\ UNCHANGED <<mainPc, sched, cyc, files, now, lastCall, sync>>

NextCap == CallFilterLinks \/ CallFilterLinksIndex

SpecCap == InitCap /\ [][NextCap]_vars

\* ------------------------------------- the back-fill of convertMP4toMP3
\* engagement counters: Null, a token scraped from the reel's own page, a
\* token of the profile grid
\* the ledger records carry the token 1 (from the reel's own page), the link
\* objects of a profile the token 2 (from the profile grid)
BackfillEntries ==
  {[linkUrl |-> l, likes |-> a, comments |-> b, views |-> c] :
     l \in 1..WideLinks, a \in {Null, 1}, b \in {Null, 1},
     c \in {Null, 1}}
\* a profile record without a links array, or with at most one link
BackfillProfiles ==
  LET StatObjs ==
        {[href |-> l, likes |-> a, comments |-> b, views |-> c] :
           l \in 1..WideLinks, a \in {Null, 2}, b \in {Null, 2},
           c \in {Null, 2}}
  IN {[hasLinks |-> FALSE, links |-> <<>>]}
     \cup {[hasLinks |-> TRUE, links |-> q] : q \in SeqsUpTo(StatObjs, 1)}

\* entry.linkUrl.includes(l.href): the href of a reel anchor is the path of
\* the reel's url
IncludesHref(linkUrl, href) == linkUrl = href

\* the first profile that holds a link for the entry, 0 if none
FirstMatch(entry, profileList) ==
  LET hits == {p \in DOMAIN profileList :
                 /\ profileList[p].hasLinks
                 /\ \E l \in DOMAIN profileList[p].links :
                      IncludesHref(entry.linkUrl, profileList[p].links[l].href)}
  IN IF hits = {} THEN 0 ELSE CHOOSE p \in hits : \A q \in hits : p <= q

\* the body of the two loops for one entry: statObj is the first such link of
\* the first such profile, and each of its counters that is set is stored
BackfillEntry(entry, profileList) ==
  LET p == FirstMatch(entry, profileList)
      links == profileList[p].links
      l == CHOOSE l \in DOMAIN links :
             /\ IncludesHref(entry.linkUrl, links[l].href)
             /\ \A m \in DOMAIN links :
                  IncludesHref(entry.linkUrl, links[m].href) => l <= m
      statObj == links[l]
  IN IF p = 0 THEN entry
     ELSE [entry EXCEPT
             !.views = IF statObj.views # Null THEN statObj.views ELSE @,
             !.likes = IF statObj.likes # Null THEN statObj.likes ELSE @,
             !.comments = IF statObj.comments # Null THEN statObj.comments ELSE @]

InitBackfill ==
  /\ mainPc = "backfill"
  /\ userDataCount = 0
  /\ googleKeepAliveCount = initialGoogleKeepAliveCount
  /\ userDataRetrival = TRUE
  /\ keepAlive = 0
  /\ harvestStarts = 0
  /\ cyc = [c \in Cycles |-> IdleCycle]
  /\ ledger = <<>>
  /\ allProfiles = [exists |-> FALSE, profiles |-> <<>>]
  /\ latestFile = Null
  /\ pageLinks = 0
  /\ reelMeta = Null
  /\ fileKind = "array"
  /\ now = 0
  /\ lastCall = NoCall
  /\ sync = NoSync
  /\ calc \in {[fn |-> "backfill",
                 input |-> [reels |-> r, profiles |-> q],
                 output |-> <<>>, done |-> FALSE] :
                r \in SeqsUpTo(BackfillEntries, MaxBackfillReels),
                q \in SeqsUpTo(BackfillProfiles, MaxBackfillProfiles)}

\* the loops "for (const entry of reels) for (const p of profileList)"
CallBackfill ==
  /\ mainPc = "backfill" /\ calc.fn = "backfill" /\ ~calc.done
  /\ LET reels == calc.input.reels
         profileList == calc.input.profiles
     IN calc' = [calc EXCEPT
                   !.output = [reels |-> [k \in DOMAIN reels |->
                                            BackfillEntry(reels[k], profileList)],
                               changed |-> \E k \in DOMAIN reels :
                                             FirstMatch(reels[k], profileList) # 0],
                   !.done = TRUE]
  /\ UNCHANGED <<mainPc, sched, cyc, files, now, lastCall, sync>>


SpecBackfill == InitBackfill /\ [][CallBackfill]_vars

\* ------------------------------------------------------------------ claims
\* the chain c took a step of its own and the process is still alive after it
Stepped(c) == cyc'[c] # cyc[c] /\ mainPc' = "loop"

\* the sweep of chain c has run its loop body on a record and has not yet
\* left the back-fill
Swept(c) == cyc[c].pc \in {"convert", "backfill"} /\ cyc[c].conv.idx # 0
SweptEntry(c) == cyc[c].reels[cyc[c].conv.idx]

\* C1: at most one harvesting cycle is in flight at any time
C1_AtMostOneCycleInFlight == NumInFlight <= 1

\* C2: a harvesting cycle that a tick started leaves the busy flag cleared
\* when it completes, on success and on a caught failure
C2_BusyClearedOnCompletion ==
  [][\A c \in Cycles :
       (Stepped(c) /\ cyc[c].origin = "tick" /\ cyc'[c].pc = "idle")
         => ~userDataRetrival']_vars

\* C3: no camouflage cycle starts while a harvesting cycle is in flight
C3_NoCamouflageDuringHarvest ==
  [][keepAlive' > keepAlive => NumInFlight = 0]_vars

\* C4: the scheduler never reaches a state from which no further cycle can
\* start: the busy flag set with no harvesting cycle left to clear it
C4_NeverStuckBusy == ~(Running /\ userDataRetrival /\ NumInFlight = 0)

\* the persisted record of linkUrl has downloaded = true
DownloadedInLedger(linkUrl) ==
  \E k \in DOMAIN ledger : ledger[k].linkUrl = linkUrl /\ ledger[k].downloaded

\* the positions of a processLinkInTab call between its entry and its return
InProcessLink(c) ==
  cyc[c].pc \in {"plt_check", "ph_load", "ph_save", "meta_load", "meta_save",
                 "drive", "latest", "dl_load", "dl_save"}

\* C5: once the persisted record of a link has downloaded = true, no step of a
\* processLinkInTab call for that link opens a browsing context or writes to
\* the ledger
C5_DownloadedNeverDrivenAgain ==
  [][\A c \in Cycles :
       (Stepped(c) /\ InProcessLink(c)
          /\ DownloadedInLedger(cyc[c].hrefs[cyc[c].i]))
         => /\ ledger' = ledger
            /\ cyc'[c].tab => cyc[c].tab]_vars

\* C6: the persisted ledger holds at most one record per linkUrl
C6_UniqueLinkUrl ==
  \A a, b \in DOMAIN ledger : a # b => ledger[a].linkUrl # ledger[b].linkUrl

\* an upsert of one chain and the whole-ledger save of another chain's sweep
\* are both between their load and their save
C6_Witness ==
  \E c, d \in Cycles :
    /\ c # d
    /\ cyc[c].pc \in {"ph_save", "meta_save", "dl_save"}
    /\ cyc[d].pc = "conv_save"
    /\ Len(ledger) >= 1

\* C7: in the persisted ledger downloaded and isConverted never go back from
\* true to false
C7_NoRegress ==
  [][\A k \in DOMAIN ledger : \A m \in DOMAIN ledger' :
       ledger'[m].linkUrl = ledger[k].linkUrl
         => /\ ledger[k].downloaded => ledger'[m].downloaded
            /\ ledger[k].isConverted => ledger'[m].isConverted]_vars

\* C8: no record is ever removed from the persisted ledger
C8_NoRecordRemoved ==
  [][\A k \in DOMAIN ledger : \E m \in DOMAIN ledger' :
       ledger'[m].linkUrl = ledger[k].linkUrl]_vars

\* C9 as stated: a record whose probe finds no audio stream is never marked
\* isConverted, and its video upload is still attempted
C9_NoAudioNeverConverted ==
  \A c \in Cycles :
    (Swept(c) /\ ~cyc[c].conv.hasAudio)
      => /\ ~SweptEntry(c).isConverted
         /\ "uploadMP4" \in cyc[c].conv.calls

\* C9 amended: for a record whose probe finds no audio stream the sweep runs no
\* audio extraction and no audio upload (mp3FilePath stays null), attempts the
\* video upload, and then marks the record isConverted
C9_NoAudioSkipsExtraction ==
  \A c \in Cycles :
    (Swept(c) /\ ~cyc[c].conv.hasAudio)
      => /\ cyc[c].conv.calls = {"probe", "uploadMP4"}
         /\ SweptEntry(c).mp3FilePath = Null
         /\ SweptEntry(c).isConverted
         /\ ~cyc[c].conv.threw

\* a sweep has just handled a record without audio stream
C9_Witness == \E c \in Cycles : Swept(c) /\ ~cyc[c].conv.hasAudio

\* C10: after the per-record sequence of a sweep threw, the persisted record
\* is not lost to the retry: it still passes the selection tests of the next
\* sweep (or a sweep that ran the whole sequence has marked it meanwhile)
C10_ThrownRecordSelectedAgain ==
  \A c \in Cycles :
    (Swept(c) /\ cyc[c].conv.threw)
      => /\ ~SweptEntry(c).isConverted
         /\ \E k \in DOMAIN ledger :
              /\ ledger[k].linkUrl = SweptEntry(c).linkUrl
              /\ ledger[k].isConverted \/ Eligible(ledger[k])

\* C11: the sweep never runs its per-record sequence (probe, extraction,
\* uploads) on a record whose persisted isConverted is true
C11_ConvertedNeverReprocessed ==
  [][\A c \in Cycles :
       (Stepped(c) /\ cyc[c].pc = "convert")
         => ~\E k \in DOMAIN ledger :
               /\ ledger[k].linkUrl = cyc[c].reels[cyc[c].j].linkUrl
               /\ ledger[k].isConverted]_vars

\* C12: a processLinkInTab call never ends the harvesting cycle: whatever
\* fails inside it, getUserData goes on with the next link, the next username
\* or the write of allProfiles.json that precedes the sweep
C12_LinkFailureKeepsBatch ==
  [][\A c \in Cycles :
       (Stepped(c) /\ InProcessLink(c)) => cyc'[c].pc # "idle"]_vars

\* C13: a caught exception ends the attempt on a link: the chain moves on to
\* the next entry of a duplicate-free link list (or leaves the loop), the step
\* does not mark the link as downloaded, and a processLinkInTab call that finds
\* the link not downloaded attempts it
C13_FailedLinkRetriedNextCycle ==
  [][\A c \in Cycles :
       /\ (Stepped(c) /\ InProcessLink(c)
             /\ cyc[c].outcome # "failed" /\ cyc'[c].outcome = "failed")
            => /\ \A a, b \in DOMAIN cyc[c].hrefs :
                    a # b => cyc[c].hrefs[a] # cyc[c].hrefs[b]
               /\ cyc'[c].pc \in {"plt_check", "extract", "profiles"}
               /\ cyc'[c].pc = "plt_check" => cyc'[c].i = cyc[c].i + 1
               /\ ~cyc'[c].tab
               /\ \A k \in DOMAIN ledger' :
                    (ledger'[k].linkUrl = cyc[c].hrefs[cyc[c].i]
                       /\ ledger'[k].downloaded)
                      => DownloadedInLedger(cyc[c].hrefs[cyc[c].i])
       /\ (Stepped(c) /\ cyc[c].pc = "plt_check"
             /\ ~DownloadedInLedger(cyc[c].hrefs[cyc[c].i]))
            => cyc'[c].pc = "ph_load"]_vars

\* an attempt has ended in a caught exception and the link's record is there,
\* not downloaded
C13_Witness ==
  \E c \in Cycles :
    /\ cyc[c].outcome = "failed"
    /\ \E k \in DOMAIN ledger : ~ledger[k].downloaded

\* C14: a per-link browsing context is open only inside the try block of a
\* processLinkInTab call: none is left open between two attempts or after the
\* cycle
C14_TabClosedBetweenAttempts ==
  \A c \in Cycles :
    cyc[c].tab => cyc[c].pc \in {"meta_load", "meta_save", "drive", "latest",
                                 "dl_load", "dl_save"}

\* C17: a tick that finds the busy flag clear and leaves the camouflage counter
\* below 15 counts the harvesting counter up by one and starts nothing while
\* the count stays below 3, and on the count of 3 it resets the counter, sets
\* the busy flag and starts exactly one harvesting cycle and no camouflage
\* cycle: from counter 0 that is the third tick
C17_ThirdTickStartsHarvest ==
  [][(mainPc = "loop" /\ mainPc' = "loop" /\ ~userDataRetrival
        /\ userDataCount' # userDataCount /\ googleKeepAliveCount + 1 < 15)
       => IF userDataCount + 1 < 3
          THEN /\ userDataCount' = userDataCount + 1
               /\ googleKeepAliveCount' = googleKeepAliveCount + 1
               /\ cyc' = cyc /\ keepAlive' = keepAlive /\ ~userDataRetrival'
          ELSE /\ userDataCount' = 0
               /\ userDataRetrival'
               /\ NumInFlight' = NumInFlight + 1
               /\ harvestStarts' = harvestStarts + 1
               /\ keepAlive' = keepAlive]_vars

\* the third tick after counter 0 has started the first harvesting cycle of the
\* timer, with the camouflage counter still below its threshold
C17_Witness ==
  /\ Running /\ harvestStarts = 1 /\ userDataRetrival
  /\ userDataCount = 0 /\ googleKeepAliveCount = 2

\* C18: while the busy flag is set no step of the running process changes a
\* counter or starts a harvesting or camouflage cycle
C18_BusyTickDoesNothing ==
  [][(mainPc = "loop" /\ mainPc' = "loop" /\ userDataRetrival)
       => /\ userDataCount' = userDataCount
          /\ googleKeepAliveCount' = googleKeepAliveCount
          /\ keepAlive' <= keepAlive
          /\ harvestStarts' = harvestStarts
          /\ \A c \in Cycles : ~InFlight(c) => ~InFlight(c)']_vars

\* the busy flag is set while the camouflage counter is past its threshold and
\* the timer keeps firing
C18_Witness ==
  /\ Running /\ userDataRetrival
  /\ googleKeepAliveCount >= targetGoogleKeepAliveCount

\* C19: a second call of upsertReelEntry with the same linkUrl and a mutation
\* that changes nothing leaves one record of that linkUrl, equal to the one
\* after the first call but for lastUpdated, and every other record as it was
C19_UpsertTwiceSameRecord ==
  [][lastCall'.again
       => /\ fileKind' = "array"
          /\ Len(ledger') = Len(ledger)
          /\ Cardinality({k \in DOMAIN ledger' :
                            ledger'[k].linkUrl = lastCall'.linkUrl}) = 1
          /\ \A k \in DOMAIN ledger :
               IF ledger[k].linkUrl = lastCall'.linkUrl
               THEN [ledger'[k] EXCEPT !.lastUpdated = 0]
                      = [ledger[k] EXCEPT !.lastUpdated = 0]
               ELSE ledger'[k] = ledger[k]]_vars

\* the second of two such calls has returned, for a downloaded record that
\* shares the file with another record
C19_Witness ==
  /\ lastCall.again
  /\ Len(ledger) = 2
  /\ \E k \in DOMAIN ledger :
       ledger[k].linkUrl = lastCall.linkUrl /\ ledger[k].downloaded

\* C20: for a missing file, a file that is no JSON and a JSON value that is no
\* array, loadAllReels returns the empty list, and the upsert that found the
\* file so leaves an array that holds the upserted record and nothing else
C20_LoadNeverFails ==
  /\ fileKind \in {"missing", "invalid", "notArray"} => loadAllReels = <<>>
  /\ lastCall.found \in {"missing", "invalid", "notArray"}
       => /\ fileKind = "array"
          /\ Len(ledger) = 1
          /\ ledger[1].linkUrl = lastCall.linkUrl

\* an upsert has replaced a JSON value that was no array
C20_Witness == lastCall.found = "notArray" /\ Len(ledger) = 1

\* the PUTs of one kind that a finished run has issued
PutsOf(kind) == {j \in DOMAIN sync.puts : sync.puts[j].kind = kind}
\* the ledger records with a server media URL and a username in their path
Synced ==
  {k \in DOMAIN ledger : ledger[k].serverMP4Url # Null /\ Len(ledger[k].linkUrl) >= 3}
SyncedOf(u) == {k \in Synced : ledger[k].linkUrl[1] = u}

\* C15: content sync issues exactly one PUT for every username found among
\* the ledger records that have a server media URL, and the reels of that PUT
\* are exactly the records of that username, each once
C15_OnePutPerUsername ==
  sync.pc = "done"
    => /\ \A k \in Synced :
            Cardinality({j \in PutsOf("content") :
                           sync.puts[j].username = ledger[k].linkUrl[1]}) = 1
       /\ \A j \in PutsOf("content") :
            LET put == sync.puts[j]
            IN /\ Len(put.reels) = Cardinality(SyncedOf(put.username))
               /\ \A k \in SyncedOf(put.username) :
                    \E i \in DOMAIN put.reels : put.reels[i] = ledger[k]

\* C16: a PUT or a picture upload that fails ends neither loop: when the two
\* calls have returned, every profile record with a username and every group
\* of content sync has had its PUT, and content sync has run
C16_SyncNeverAborts ==
  sync.pc = "done"
    => /\ allProfiles.exists
            => \A i \in DOMAIN allProfiles.profiles :
                 allProfiles.profiles[i].username # ""
                   => \E j \in PutsOf("profile") :
                        sync.puts[j].username = allProfiles.profiles[i].username
       /\ LET groups == GroupReels(ledger, Len(ledger))
          IN /\ Cardinality(PutsOf("content")) = Len(groups)
             /\ \A i \in DOMAIN groups :
                  \E j \in PutsOf("content") :
                    sync.puts[j].username = groups[i].username

\* a run in which the first profile PUT threw after a failed picture upload
\* and the first content PUT was refused, each followed by another PUT
C16_Witness ==
  /\ sync.pc = "done"
  /\ Cardinality(PutsOf("profile")) = 2
  /\ Cardinality(PutsOf("content")) = 2
  /\ sync.puts[1].res = "threw" /\ sync.puts[1].pic = "kept"
  /\ sync.puts[3].res = "notOk"

\* C21: for the tokens "338", "1,234", "12.3K" and "4.5M" normalizeCount
\* returns 338, 1234, 12300 and 4500000
C21_ExampleTokens ==
  calc.fn = "normalizeCount" /\ calc.done
    => /\ calc.input = <<"3", "3", "8">> => calc.output = 338
       /\ calc.input = <<"1", ",", "2", "3", "4">> => calc.output = 1234
       /\ calc.input = <<"1", "2", ".", "3", "K">> => calc.output = 12300
       /\ calc.input = <<"4", ".", "5", "M">> => calc.output = 4500000

\* the call for "1,234" has returned
C21_Witness ==
  /\ calc.fn = "normalizeCount" /\ calc.done
  /\ calc.input = <<"1", ",", "2", "3", "4">>
  /\ calc.output = 1234

\* a token of digits with an optional suffix K, M or B in either case
DigitsToken(t) ==
  LET n == PrefixLen(t, Digit)
  IN /\ n > 0
     /\ Drop(t, n) \in {<<>>, <<"K">>, <<"M">>, <<"B">>, <<"k">>, <<"m">>, <<"b">>}

\* C22: for every token of digits with an optional suffix K, M or B in any
\* letter case normalizeCount returns the number times 1e3, 1e6 or 1e9; a
\* token with suffix B yields an integer, not the absent value
C22_SuffixesScale ==
  calc.fn = "normalizeCount" /\ calc.done /\ DigitsToken(calc.input)
    => LET n == PrefixLen(calc.input, Digit)
           value == DecValue(Take(calc.input, n))
           suffix == ToUpperCase(Drop(calc.input, n))
       IN /\ calc.output # Absent
          /\ suffix = <<>> => calc.output = value
          /\ suffix = <<"K">> => calc.output = value * 1000
          /\ suffix = <<"M">> => calc.output = value * 1000000

\* the count the description of a page gives for label k, absent when the
\* description has no chunk for it
MetaCountOf(pg, k) ==
  IF \E i \in DOMAIN pg.order : pg.order[i] = k
  THEN normalizeCount(MetaCounts[k]) ELSE Absent

\* C23: when the description resolves at least one of the three aggregates
\* the result is that of the description alone, 150 followers, 12 following
\* and 34 posts for the three chunks in any order and letter case, whatever
\* the visible text holds; the visible text is read only when the
\* description resolves none
C23_OneTier ==
  calc.fn = "extractProfileStats" /\ calc.done
    => LET pg == calc.input
           out == calc.output
       IN /\ pg.order # <<>>
               => /\ out.source = "meta:description"
                  /\ ~out.textRead
                  /\ out.followers = MetaCountOf(pg, 1)
                  /\ out.following = MetaCountOf(pg, 2)
                  /\ out.posts = MetaCountOf(pg, 3)
          /\ Len(pg.order) = 3
               => out.followers = 150 /\ out.following = 12 /\ out.posts = 34
          /\ out.textRead => pg.order = <<>>

\* the description holds the three chunks, posts first, in capitals, and the
\* visible text holds other counts
C23_Witness ==
  /\ calc.fn = "extractProfileStats" /\ calc.done
  /\ calc.input.order = <<3, 1, 2>> /\ calc.input.style = "UPPER"
  /\ calc.input.text # <<>>
  /\ calc.output.followers = 150

\* C24: in both versions of getUserData the links queued for one username
\* are never more than that version's maxLinksPerUser, however many anchors
\* the page shows
C24_LinksCapped ==
  /\ calc.fn = "getUserData" /\ calc.done
       => Len(calc.output) <= maxLinksPerUser
  /\ calc.fn = "index.getUserData" /\ calc.done
       => Len(calc.output) <= indexMaxLinksPerUser

\* C25: the process ends only when the launch of the browser failed for good
\* or a tick found the browser disconnected; a failure inside a harvesting
\* cycle, started by main() or by a tick, never ends it
C25_ExitOnlyWhenFatal ==
  mainPc \in {"exit_launch", "exit_setup", "exit_disconnected"}
  \/ mainPc = "loop" \/ Launching

\* C26: launchBrowser makes at most retries launch attempts, none after the
\* first that succeeds, and after retries failures main() ends the process
\* with no tick scheduled and no cycle started
C26_LaunchBounded ==
  [][/\ Launching
        => /\ \A c \in Cycles : ~InFlight(c)
           /\ harvestStarts = 0 /\ keepAlive = 0
           /\ googleKeepAliveCount = initialGoogleKeepAliveCount
     /\ Launching /\ mainPc' \notin {"exit_launch", "exit_setup"}
        => /\ AttemptOf(mainPc) < retries
           /\ mainPc' = "loop" \/ mainPc' = LaunchPcs[AttemptOf(mainPc) + 2]
     /\ ~Launching => ~Launching'
     /\ Launching /\ AttemptOf(mainPc) = retries
        => /\ mainPc' = "exit_launch"
           /\ \A c \in Cycles : cyc'[c] = IdleCycle
           /\ harvestStarts' = 0 /\ keepAlive' = 0]_vars

\* the process has ended after the last launch attempt failed
C26_Witness == mainPc = "exit_launch"

\* C27: the back-fill from the profile links fills only the counters that the
\* ledger record still lacks; likes, comments or views already stored are
\* never overwritten
C27_BackfillKeepsStored ==
  calc.fn = "backfill" /\ calc.done
    => \A k \in DOMAIN calc.input.reels :
         LET before == calc.input.reels[k]
             after == calc.output.reels[k]
         IN /\ before.likes # Null => after.likes = before.likes
            /\ before.comments # Null => after.comments = before.comments
            /\ before.views # Null => after.views = before.views

\* some record of the sweep's copy matches a link of allProfiles.json
SweepMatched(c) ==
  /\ allProfiles.exists
  /\ \E k \in DOMAIN cyc[c].reels :
       MatchesProfile(cyc[c].reels[k], allProfiles.profiles)

SweepPcs ==
  {"conv_load", "convert", "backfill", "conv_save", "sync_profiles", "sync_content"}

\* C29: every harvesting cycle that starts runs one conversion sweep, which
\* starts only when the downloads of all usernames are over, also when the
\* extraction or the navigation for a username fails
C29_OneSweepPerCycle ==
  [][\A c \in Cycles : Stepped(c) =>
       /\ cyc'[c].pc = "idle" => cyc[c].pc \in SweepPcs
       /\ cyc'[c].pc = "conv_load"
            => cyc[c].pc = "profiles" /\ cyc[c].u = Len(usernameArray)
       /\ cyc[c].pc \in SweepPcs => cyc'[c].pc \in SweepPcs \cup {"idle"}]_vars

\* the positions of a chain between browser.newPage() and tab.close() of one
\* processLinkInTab call
AttemptPcs == {"meta_load", "meta_save", "drive", "latest", "dl_load", "dl_save"}

C31_FilePathOfOwnAttempt ==
  /\ \A k \in DOMAIN ledger :
       ledger[k].filePath # Null => ledger[k].filePath = FileOf(ledger[k].linkUrl)
  /\ \A k, m \in DOMAIN ledger :
       ledger[k].filePath # Null /\ ledger[k].filePath = ledger[m].filePath
         => ledger[k].linkUrl = ledger[m].linkUrl

\* the scraped metadata that a list holds for a link, Null without a record
MetaOf(list, linkUrl) ==
  IF FindEntry(list, linkUrl) = 0 THEN Null
  ELSE list[FindEntry(list, linkUrl)].meta

\* C32: the metadata scraped from the reel's page is written to the record
\* before the redirector is driven, only non-null scraped values are written,
\* and while the download of the attempt goes on, whatever its outcome, the
\* metadata of the record stays in the ledger
C32_MetaStaysThroughDownload ==
  [][\A c \in Cycles :
       /\ cyc'[c].pc = "drive" /\ cyc[c].pc # "drive"
            => /\ cyc[c].pc = "meta_save"
               /\ MetaOf(ledger', CurLink(c)) = MetaOf(cyc[c].list, CurLink(c))
       /\ cyc[c].pc = "meta_load" /\ cyc'[c].pc = "meta_save"
            => LET old == MetaOf(loadAllReels, CurLink(c))
                   new == MetaOf(cyc'[c].list, CurLink(c))
               IN new \in {old, Scraped} /\ (old # Null => new # Null)
       /\ cyc[c].pc \in {"drive", "latest", "dl_load", "dl_save"}
          /\ MetaOf(ledger, CurLink(c)) # Null
            => MetaOf(ledger', CurLink(c)) = MetaOf(ledger, CurLink(c))]_vars

\* C33: on a tick that finds the busy flag clear and takes both counters to
\* their thresholds only the harvesting cycle starts and the camouflage counter
\* keeps its count; on a tick that finds the busy flag clear, the harvesting
\* counter below and the camouflage counter at its threshold, the camouflage
\* cycle starts; the camouflage counter goes down in no other step
C33_CamouflageDeferredNotLost ==
  [][mainPc = "loop" /\ mainPc' = "loop" =>
       /\ ~userDataRetrival /\ userDataCount' # userDataCount
            => IF userDataCount + 1 >= targetUserDataCount
               THEN /\ harvestStarts' = harvestStarts + 1
                    /\ keepAlive' = keepAlive
                    /\ googleKeepAliveCount' = googleKeepAliveCount + 1
               ELSE IF googleKeepAliveCount + 1 >= targetGoogleKeepAliveCount
               THEN /\ keepAlive' = keepAlive + 1
                    /\ googleKeepAliveCount' = 0
                    /\ harvestStarts' = harvestStarts
               ELSE /\ keepAlive' = keepAlive
                    /\ googleKeepAliveCount' = googleKeepAliveCount + 1
       /\ googleKeepAliveCount' < googleKeepAliveCount
            => keepAlive' = keepAlive + 1
       /\ keepAlive' > keepAlive => googleKeepAliveCount' = 0]_vars

\* the camouflage cycle that was due on the tick that started the harvest was
\* started by the first tick after the harvest cleared the busy flag
C33_Witness ==
  /\ mainPc = "loop" /\ harvestStarts = 1 /\ keepAlive = 1
  /\ googleKeepAliveCount = 0 /\ userDataCount = 1

\* C34: for every count token parseCount returns the integer that
\* normalizeCount returns, and 0 where normalizeCount returns the absent value
C34_ParseCountIsNormalizeCount ==
  calc.fn = "parseCount" /\ calc.done
    => calc.output = (IF normalizeCount(calc.input) = Absent THEN 0
                      ELSE normalizeCount(calc.input))

\* C35: while the process runs and the camouflage counter is at or above its
\* threshold, a tick that finds the busy flag clear either starts the
\* camouflage cycle and resets the counter to 0, or starts a harvesting cycle
\* and leaves the harvesting counter so low that the next tick that finds the
\* busy flag clear starts the camouflage cycle; no step in between changes
\* either counter. So the camouflage cycle starts within two such ticks
C35_CamouflageWithinTwoTicks ==
  [][mainPc = "loop" /\ mainPc' = "loop"
     /\ googleKeepAliveCount >= targetGoogleKeepAliveCount =>
       IF ~userDataRetrival /\ userDataCount' # userDataCount
       THEN \/ /\ keepAlive' = keepAlive + 1
               /\ googleKeepAliveCount' = 0
            \/ /\ userDataCount + 1 >= targetUserDataCount
               /\ userDataRetrival'
               /\ googleKeepAliveCount' >= targetGoogleKeepAliveCount
               /\ userDataCount' + 1 < targetUserDataCount
       ELSE /\ userDataCount' = userDataCount
            /\ googleKeepAliveCount' = googleKeepAliveCount]_vars

\* the second tick that found the busy flag clear since the start has started
\* the camouflage cycle, the first one having started the harvesting cycle
\* that is over by now
C35_Witness ==
  /\ mainPc = "loop" /\ keepAlive = 1 /\ googleKeepAliveCount = 0
  /\ harvestStarts = 1 /\ ~userDataRetrival
  /\ \A c \in Cycles : ~InFlight(c)

\* C36: an attempt that finds no download action on the redirector page ends
\* without writing the ledger, so the record stays as the placeholder left it;
\* the upserts before the redirector never set downloaded; the attempt
\* reaches the upsert of downloaded = true only after it clicked the action;
\* and a call that finds the link not downloaded attempts it
C36_NoDownloadWithoutAction ==
  [][\A c \in Cycles : Stepped(c) /\ InProcessLink(c) =>
       LET l == cyc[c].hrefs[cyc[c].i]
           marked == \E k \in DOMAIN cyc'[c].list :
                       /\ cyc'[c].list[k].linkUrl = l
                       /\ cyc'[c].list[k].downloaded
       IN /\ cyc[c].outcome # "noButton" /\ cyc'[c].outcome = "noButton"
               => /\ cyc[c].pc = "drive"
                  /\ ledger' = ledger /\ fileKind' = fileKind
                  /\ latestFile' = latestFile
          /\ cyc'[c].pc \in {"latest", "dl_load", "dl_save"} => cyc'[c].clicked
          /\ cyc[c].pc = "ph_load" => ~marked
          /\ cyc[c].pc = "meta_load" /\ marked => DownloadedInLedger(l)
          /\ ledger' # ledger
               => /\ cyc[c].pc \in {"ph_save", "meta_save", "dl_save"}
                  /\ ledger' = cyc[c].list
          /\ cyc[c].pc = "plt_check" /\ ~DownloadedInLedger(l)
               => cyc'[c].pc = "ph_load"]_vars

\* an attempt has ended for want of a download action and the record of its
\* link is not downloaded and has no filePath
C36_Witness ==
  \E c \in Cycles :
    /\ cyc[c].outcome = "noButton"
    /\ \E k \in DOMAIN ledger :
         ~ledger[k].downloaded /\ ledger[k].filePath = Null

\* C37: every record of the ledger file that is marked converted holds the
\* server URL of its uploaded video, also when the upload failed
C37_ConvertedIsUploaded ==
  \A k \in DOMAIN ledger :
    ledger[k].isConverted => ledger[k].serverMP4Url # Null

\* C38: no record of the ledger file is in a state that no part of the
\* program acts on again: a record with downloaded = true, which the download
\* of a later cycle skips, is either one that the conversion sweep selects or
\* one that the content sync sends (one with a serverMP4Url)
C38_NoRecordStuck ==
  \A k \in DOMAIN ledger :
    ledger[k].downloaded
      => \/ Eligible(ledger[k])
         \/ ledger[k].serverMP4Url # Null
====
